---------------------------- MODULE Spec2Model ----------------------------
(***************************************************************************)
(* bevy_minesweeper: the board plugin (tile map generation, flood-fill     *)
(* uncover, input and trigger handling) and the application's state        *)
(* handling (pause flag, AppState transitions, restart).                   *)
(*                                                                         *)
(* The specifications share the variables:                                 *)
(*   SpecGen    TileMap::empty + TileMap::set_bombs, step by step          *)
(*   SpecConfig create_board from any BoardOptions to the Board            *)
(*   Spec       a session: frames of the Bevy schedule, one action per     *)
(*              system, the systems of a pass in any order                 *)
(*   SpecBoard  the Board operations applied to arbitrary Board values     *)
(*   SpecOps    try_uncover_tile and adjacent_covered_tiles called         *)
(*              directly on arbitrary Board values                         *)
(*   SpecPlay   a board driven by activation, mark and pause intents and   *)
(*              uncover passes                                             *)
(***************************************************************************)
EXTENDS Integers, Sequences, FiniteSets, TLC

VARIABLES
    \* ---- TileMap generation (SpecGen) ----
    gw, gh,            \* map_size
    gcount,            \* bomb_count asked of set_bombs
    gtiles,            \* the TileMap under construction
    gremaining,        \* bombs still to place
    gpc,               \* "place" | "derive" | "done"
    \* ---- application state ----
    state,             \* State<AppState>::current(): "Out" | "InGame"
    scheduled,         \* State<AppState>: the queued state.set(), or "None"
    transition,        \* the transition the state driver is performing, or "None"
    paused,            \* Paused(bool)
    panicked,          \* an unwrap() of a failed state.set() ended the app
    \* ---- Board resource ----
    hasBoard,          \* the Board resource exists
    safe_start,        \* BoardOptions::safe_start
    tile_map,          \* Board::tile_map
    covered_tiles,     \* Board::covered_tiles (its key set)
    marked_tiles,      \* Board::marked_tiles
    uncover,           \* cover entities carrying the Uncover component
    inserted,          \* Uncover insertions queued in Commands during this pass
    \* ---- events ----
    trigOld, trigNew,  \* unread TileTriggerEvents: sent last frame / this frame
    markEv,            \* unread TileMarkEvents
    restartEv,         \* unread RestartEvents
    bombExplosionEvents,   \* BombExplosionEvents sent so far
    boardCompletedEvents,  \* BoardCompletedEvents sent so far
    \* ---- schedule ----
    phase,             \* "idle" | "update" | "exit" | "enter"; "gen", "board", "ops", "play" elsewhere
    todo,              \* systems of the current pass that have not run yet
    inputs,            \* input events (mouse presses, key presses) received so far
    \* ---- history ----
    acts,              \* coordinates activated on this board (trigger or safe start)
    removals,          \* per coordinate: successful try_uncover_tile calls on this board
    actedOnSkipped,    \* a trigger event skipped while paused was acted upon later
    restartRequested,  \* G was pressed in a running game and no board was built since
    markRequested,     \* a right press was resolved to a covered tile of this board
    lastCall           \* the last Board method called directly, with its result

genVars == <<gw, gh, gcount, gtiles, gremaining, gpc>>
appVars == <<state, scheduled, transition, paused, panicked>>
boardVars == <<hasBoard, safe_start, tile_map, covered_tiles, marked_tiles, uncover, inserted>>
eventVars == <<trigOld, trigNew, markEv, restartEv, bombExplosionEvents, boardCompletedEvents>>
schedVars == <<phase, todo, inputs>>
histVars == <<acts, removals, actedOnSkipped, restartRequested, markRequested, lastCall>>
vars == <<genVars, appVars, boardVars, eventVars, schedVars, histVars>>

----------------------------------------------------------------------------
(* Bounds *)

\* session grid (BoardOptions::map_size) and bomb count (BoardOptions::bomb_count)
Width == 3
Height == 2
BombCount == 1
\* input events (mouse button presses, Escape and G presses) of a session
MaxInputs == 3
\* largest map_size explored by SpecGen
MaxW == 3
MaxH == 3

----------------------------------------------------------------------------
(* Coordinates and tiles *)

Coords(w, h) == (0 .. w - 1) \X (0 .. h - 1)

Abs(n) == IF n < 0 THEN -n ELSE n

BombTile == [kind |-> "Bomb", count |-> 0]
EmptyTile == [kind |-> "Empty", count |-> 0]
BombNeighborTile(n) == [kind |-> "BombNeighbor", count |-> n]

\* the 3x3 block around a cell, centre excluded, scanned row-major
SquareOffsets ==
    << <<-1, -1>>, <<0, -1>>, <<1, -1>>,
       <<-1, 0>>,             <<1, 0>>,
       <<-1, 1>>,  <<0, 1>>,  <<1, 1>> >>

InBounds(c, w, h) == c[1] >= 0 /\ c[1] < w /\ c[2] >= 0 /\ c[2] < h

\* Coordinate::neighbors(width, height): the in-bounds cells of the block
Neighbors(c, w, h) ==
    { d \in Coords(w, h) :
        \E i \in 1 .. Len(SquareOffsets) :
            d = <<c[1] + SquareOffsets[i][1], c[2] + SquareOffsets[i][2]>> }

IsBombAt(tiles, c, w, h) == InBounds(c, w, h) /\ tiles[c].kind = "Bomb"

\* number of bomb-tagged cells among the offsets i..8 of the block around c
RECURSIVE BombCountFrom(_, _, _, _, _)
BombCountFrom(tiles, c, w, h, i) ==
    IF i > Len(SquareOffsets) THEN 0
    ELSE LET d == <<c[1] + SquareOffsets[i][1], c[2] + SquareOffsets[i][2]>>
         IN  (IF IsBombAt(tiles, d, w, h) THEN 1 ELSE 0)
             + BombCountFrom(tiles, c, w, h, i + 1)

BombCountAtSkipFirst(tiles, c, w, h) == BombCountFrom(tiles, c, w, h, 2)

BombCountAt(tiles, c, w, h) == BombCountFrom(tiles, c, w, h, 1)

\* TileMap::empty(width, height)
EmptyMap(w, h) == [c \in Coords(w, h) |-> EmptyTile]

\* the cells set_bombs may still draw: sampling without replacement
BombCandidatesWithReplacement(tiles, w, h) == Coords(w, h)

BombCandidates(tiles, w, h) == { c \in Coords(w, h) : tiles[c].kind # "Bomb" }

\* set_bombs, second half: every non-bomb cell gets its neighbour count
DeriveCounts(tiles, w, h) ==
    [c \in Coords(w, h) |->
        IF tiles[c].kind = "Bomb" THEN BombTile
        ELSE LET n == BombCountAt(tiles, c, w, h)
             IN  IF n > 0 THEN BombNeighborTile(n) ELSE EmptyTile]

\* the tile map set_bombs leaves when its random draws pick the cells `bombs`
SetBombs(bombs, w, h) ==
    DeriveCounts([c \in Coords(w, h) |-> IF c \in bombs THEN BombTile ELSE EmptyTile], w, h)

BombsOf(tiles, w, h) == { c \in Coords(w, h) : tiles[c].kind = "Bomb" }

----------------------------------------------------------------------------
(* SpecGen: TileMap::empty followed by TileMap::set_bombs *)

\* no Board method has been called directly
NoCall == [op |-> "none", coord |-> <<0, 0>>, some |-> FALSE, cells |-> {}]

SessionIdle ==
    /\ state = "Out" /\ scheduled = "None" /\ transition = "None"
    /\ paused = FALSE /\ panicked = FALSE
    /\ hasBoard = FALSE /\ safe_start = FALSE
    /\ tile_map = EmptyMap(Width, Height)
    /\ covered_tiles = {} /\ marked_tiles = {} /\ uncover = {} /\ inserted = {}
    /\ trigOld = <<>> /\ trigNew = <<>> /\ markEv = <<>> /\ restartEv = 0
    /\ bombExplosionEvents = 0 /\ boardCompletedEvents = 0
    /\ todo = {} /\ inputs = 0
    /\ acts = {} /\ removals = [c \in Coords(Width, Height) |-> 0]
    /\ actedOnSkipped = FALSE /\ restartRequested = FALSE
    /\ markRequested = FALSE /\ lastCall = NoCall

GenIdle ==
    /\ gw = 1 /\ gh = 1 /\ gcount = 0
    /\ gtiles = EmptyMap(1, 1) /\ gremaining = 0 /\ gpc = "done"

GenInit ==
    /\ gw \in 1 .. MaxW
    /\ gh \in 1 .. MaxH
    /\ gcount \in 0 .. gw * gh
    /\ gtiles = EmptyMap(gw, gh)
    /\ gremaining = gcount
    /\ gpc = "place"
    /\ phase = "gen"
    /\ SessionIdle

\* one random draw of set_bombs
GenPlaceBomb ==
    /\ phase = "gen" /\ gpc = "place" /\ gremaining > 0
    /\ \E c \in BombCandidates(gtiles, gw, gh) :
          gtiles' = [gtiles EXCEPT ![c] = BombTile]
    /\ gremaining' = gremaining - 1
    /\ UNCHANGED <<gw, gh, gcount, gpc>>
    /\ UNCHANGED <<appVars, boardVars, eventVars, schedVars, histVars>>

GenPlaced ==
    /\ phase = "gen" /\ gpc = "place" /\ gremaining = 0
    /\ gpc' = "derive"
    /\ UNCHANGED <<gw, gh, gcount, gtiles, gremaining>>
    /\ UNCHANGED <<appVars, boardVars, eventVars, schedVars, histVars>>

GenDerive ==
    /\ phase = "gen" /\ gpc = "derive"
    /\ gtiles' = DeriveCounts(gtiles, gw, gh)
    /\ gpc' = "done"
    /\ UNCHANGED <<gw, gh, gcount, gremaining>>
    /\ UNCHANGED <<appVars, boardVars, eventVars, schedVars, histVars>>

GenNext == GenPlaceBomb \/ GenPlaced \/ GenDerive

SpecGen == GenInit /\ [][GenNext]_vars

SpecGenFair == GenInit /\ [][GenNext]_vars /\ WF_vars(GenNext)

----------------------------------------------------------------------------
(* SpecConfig: create_board from the BoardOptions to the Board resource, for
   every map_size and bomb_count of the option type within the bounds,
   malformed ones included *)

\* TileMap::empty fails on a zero width or height
EmptyFails(w, h) == w = 0 \/ h = 0

\* what set_bombs does with a count: it fails, or goes on to place n bombs;
\* a count above the number of cells fails or is clamped
SetBombsOutcomes(count, w, h) ==
    IF count > w * h
    THEN {[ok |-> FALSE, n |-> 0], [ok |-> TRUE, n |-> w * h]}
    ELSE {[ok |-> TRUE, n |-> count]}

ConfigInit ==
    /\ gw \in 0 .. MaxW
    /\ gh \in 0 .. MaxH
    /\ gcount \in 0 .. gw * gh + 1
    /\ gtiles = <<>>
    /\ gremaining = 0
    /\ gpc = "options"
    /\ phase = "gen"
    /\ SessionIdle

\* let mut tile_map = TileMap::empty(options.map_size.0, options.map_size.1)
ConfigEmpty ==
    /\ phase = "gen" /\ gpc = "options"
    /\ IF EmptyFails(gw, gh)
       THEN gpc' = "error" /\ UNCHANGED gtiles
       ELSE gpc' = "set_bombs" /\ gtiles' = EmptyMap(gw, gh)
    /\ UNCHANGED <<gw, gh, gcount, gremaining>>
    /\ UNCHANGED <<appVars, boardVars, eventVars, schedVars, histVars>>

\* tile_map.set_bombs(options.bomb_count), up to its first draw
ConfigSetBombs ==
    /\ phase = "gen" /\ gpc = "set_bombs"
    /\ \E out \in SetBombsOutcomes(gcount, gw, gh) :
          IF out.ok
          THEN gpc' = "place" /\ gremaining' = out.n
          ELSE gpc' = "error" /\ UNCHANGED gremaining
    /\ UNCHANGED <<gw, gh, gcount, gtiles>>
    /\ UNCHANGED <<appVars, boardVars, eventVars, schedVars, histVars>>

\* commands.insert_resource(Board { tile_map, covered_tiles, .. })
ConfigInsertBoard ==
    /\ phase = "gen" /\ gpc = "done" /\ ~hasBoard
    /\ hasBoard' = TRUE
    /\ tile_map' = gtiles
    /\ covered_tiles' = Coords(gw, gh)
    /\ marked_tiles' = {}
    /\ UNCHANGED <<safe_start, uncover, inserted>>
    /\ UNCHANGED <<genVars, appVars, eventVars, schedVars, histVars>>

ConfigNext ==
    \/ ConfigEmpty
    \/ ConfigSetBombs
    \/ GenPlaceBomb
    \/ GenPlaced
    \/ GenDerive
    \/ ConfigInsertBoard

SpecConfig == ConfigInit /\ [][ConfigNext]_vars

----------------------------------------------------------------------------
(* Board operations (resources/board.rs) on a board value
   b = [covered, marked, inserted, removals] over the session grid *)

GridCoords == Coords(Width, Height)

\* Board::tile_to_uncover: the cover entity iff covered and not marked
TileToUncover(covered, marked, c) == c \in covered /\ c \notin marked

\* Board::try_uncover_tile: TRUE iff a cover was removed
TryUncoverHit(covered, c) == c \in covered

\* Board::try_uncover_tile: the result (some: a cover handle is returned) and
\* the covered and marked sets it leaves
TryUncoverTileStaleHandle(covered, marked, c) ==
    [some |-> c \in GridCoords, covered |-> covered \ {c}, marked |-> marked \ {c}]

TryUncoverTileToggling(covered, marked, c) ==
    [some |-> c \in covered,
     covered |-> IF c \in covered THEN covered \ {c} ELSE covered \cup ({c} \cap GridCoords),
     marked |-> marked \ {c}]

TryUncoverTile(covered, marked, c) ==
    [some |-> TryUncoverHit(covered, c), covered |-> covered \ {c}, marked |-> marked \ {c}]

\* Board::adjacent_covered_tiles
AdjacentCoveredTilesWithSelf(covered, c) == (Neighbors(c, Width, Height) \cup {c}) \cap covered

AdjacentCoveredTiles(covered, c) == Neighbors(c, Width, Height) \cap covered

\* Board::mark_request: toggles the mark of a covered cell
MarkRequest(covered, marked, c) ==
    IF c \notin covered THEN marked
    ELSE IF c \in marked THEN marked \ {c} ELSE marked \cup {c}

\* mark_tiles' loop over the TileMarkEvents it reads
RECURSIVE MarkAll(_, _, _)
MarkAll(covered, marked, evs) ==
    IF evs = <<>> THEN marked
    ELSE MarkAll(covered, MarkRequest(covered, marked, Head(evs)), Tail(evs))

\* Board::is_completed
IsCompleted(tiles, covered) == \A c \in covered : tiles[c].kind = "Bomb"

\* spawn_tiles: the components the tile entity of c carries
HasBombComponent(tiles, c) == tiles[c].kind = "Bomb"
HasBombNeighborComponent(tiles, c) == tiles[c].kind = "BombNeighbor"

\* the first Empty tile in the order spawn_tiles walks the map (y outer, x inner)
EmptyCells(tiles) == { c \in GridCoords : tiles[c] = EmptyTile }

Before(c, d) == c[2] < d[2] \/ (c[2] = d[2] /\ c[1] < d[1])

SafeStartCellsLast(tiles) ==
    { c \in EmptyCells(tiles) : \A d \in EmptyCells(tiles) : d = c \/ Before(d, c) }

SafeStartCells(tiles) ==
    { c \in EmptyCells(tiles) : \A d \in EmptyCells(tiles) : d = c \/ Before(c, d) }

\* the body of uncover_tiles' loop for one cover entity, at coordinate c
UncoverOneExpandingNumbered(tiles, b, c) ==
    LET hit == TryUncoverHit(b.covered, c)
        cov == b.covered \ {c}
    IN  [ covered |-> cov,
          marked |-> b.marked \ {c},
          removals |-> IF hit THEN [b.removals EXCEPT ![c] = @ + 1] ELSE b.removals,
          inserted |-> IF HasBombComponent(tiles, c)
                       THEN b.inserted
                       ELSE b.inserted \cup AdjacentCoveredTiles(cov, c) ]

UncoverOneKeepingCover(tiles, b, c) ==
    [ covered |-> b.covered,
      marked |-> b.marked \ {c},
      removals |-> [b.removals EXCEPT ![c] = @ + 1],
      inserted |-> IF HasBombComponent(tiles, c)
                   THEN b.inserted
                   ELSE IF ~HasBombNeighborComponent(tiles, c)
                        THEN b.inserted \cup AdjacentCoveredTiles(b.covered \ {c}, c)
                        ELSE b.inserted ]

UncoverOneSkippingNumbered(tiles, b, c) ==
    LET numbered == HasBombNeighborComponent(tiles, c)
        hit == TryUncoverHit(b.covered, c) /\ ~numbered
        cov == IF numbered THEN b.covered ELSE b.covered \ {c}
    IN  [ covered |-> cov,
          marked |-> b.marked \ {c},
          removals |-> IF hit THEN [b.removals EXCEPT ![c] = @ + 1] ELSE b.removals,
          inserted |-> IF HasBombComponent(tiles, c)
                       THEN b.inserted
                       ELSE IF ~numbered
                            THEN b.inserted \cup AdjacentCoveredTiles(cov, c)
                            ELSE b.inserted ]

UncoverOneKeepingMark(tiles, b, c) ==
    LET hit == TryUncoverHit(b.covered, c)
        cov == b.covered \ {c}
    IN  [ covered |-> cov,
          marked |-> b.marked,
          removals |-> IF hit THEN [b.removals EXCEPT ![c] = @ + 1] ELSE b.removals,
          inserted |-> IF HasBombComponent(tiles, c)
                       THEN b.inserted
                       ELSE IF ~HasBombNeighborComponent(tiles, c)
                            THEN b.inserted \cup AdjacentCoveredTiles(cov, c)
                            ELSE b.inserted ]

UncoverOne(tiles, b, c) ==
    LET hit == TryUncoverHit(b.covered, c)
        cov == b.covered \ {c}
    IN  [ covered |-> cov,
          marked |-> b.marked \ {c},
          removals |-> IF hit THEN [b.removals EXCEPT ![c] = @ + 1] ELSE b.removals,
          inserted |-> IF HasBombComponent(tiles, c)
                       THEN b.inserted
                       ELSE IF ~HasBombNeighborComponent(tiles, c)
                            THEN b.inserted \cup AdjacentCoveredTiles(cov, c)
                            ELSE b.inserted ]

\* uncover_tiles' loop over the query of entities with Uncover
RECURSIVE UncoverAll(_, _, _)
UncoverAll(tiles, b, todoCells) ==
    IF todoCells = {} THEN b
    ELSE LET c == CHOOSE x \in todoCells : TRUE
         IN  UncoverAll(tiles, UncoverOne(tiles, b, c), todoCells \ {c})


----------------------------------------------------------------------------
(* Spec: a session.  A frame is BeginFrame, one pass of the systems that
   run unconditionally (state_handler, restart) together with the systems of
   the active state's update sets, in any order, then EndPass, which applies
   the queued Commands and lets the state driver perform a queued
   transition: on_exit, on_enter, and a pass of the new state's update sets. *)

AppSystems == {"state_handler", "restart"}

\* SystemSet::on_update(running_state) and on_in_stack_update(running_state)
UpdateSystems(s) ==
    IF s = "InGame"
    THEN {"input_handling", "trigger_event_handler", "uncover_tiles", "mark_tiles"}
    ELSE {}

Init ==
    /\ GenIdle
    /\ state = "Out" /\ scheduled = "InGame" /\ transition = "None"
    /\ paused = FALSE /\ panicked = FALSE
    /\ hasBoard = FALSE
    /\ safe_start \in BOOLEAN
    /\ tile_map = EmptyMap(Width, Height)
    /\ covered_tiles = {} /\ marked_tiles = {} /\ uncover = {} /\ inserted = {}
    /\ trigOld = <<>> /\ trigNew = <<>> /\ markEv = <<>> /\ restartEv = 0
    /\ bombExplosionEvents = 0 /\ boardCompletedEvents = 0
    /\ phase = "idle" /\ todo = {} /\ inputs = 0
    /\ acts = {} /\ removals = [c \in GridCoords |-> 0]
    /\ actedOnSkipped = FALSE /\ restartRequested = FALSE
    /\ markRequested = FALSE /\ lastCall = NoCall

\* The systems of a pass run in an order the schedule does not fix.  Two
\* systems that share no data commute, so only the relative order of the
\* pairs that do share data is explored: restart shares data with
\* state_handler alone (State, RestartEvent) and runs first or last of the
\* pass; uncover_tiles shares data with trigger_event_handler alone (Board,
\* Commands) and runs before or after the three of state_handler,
\* input_handling and trigger_event_handler, which take every order.
\* mark_tiles shares the Board with the systems that use it and TileMarkEvent
\* with input_handling; as long as no TileMarkEvent is unread it reads and
\* writes nothing, commutes with every system, and runs first of the update
\* sets; with an event unread it takes every place.
InputBlock == {"state_handler", "input_handling", "trigger_event_handler"}

PassSystems ==
    IF "state_handler" \in todo \/ "restart" \in todo
    THEN IF transition # "None" THEN AppSystems ELSE AppSystems \cup UpdateSystems(state)
    ELSE UpdateSystems(state)

MarkFirst == markEv = <<>> /\ "mark_tiles" \in todo

MayRun(sys) ==
    CASE sys = "restart" -> todo = {"restart"} \/ todo = PassSystems
      [] sys = "mark_tiles" ->
            markEv = <<>> => todo \ {"restart"} = PassSystems \ {"restart"}
      [] sys = "uncover_tiles" ->
            /\ ~MarkFirst
            /\ \/ todo \cap InputBlock = {}
               \/ todo \cap InputBlock = PassSystems \cap InputBlock
      [] OTHER -> ~MarkFirst

Running(sys) == phase = "update" /\ ~panicked /\ sys \in todo /\ MayRun(sys)

Ran(sys) == todo' = todo \ {sys} /\ phase' = phase

Cost(pressed) == IF pressed THEN 1 ELSE 0

\* stage First (Events::update_system) and the state driver's first look
BeginFrame ==
    /\ phase = "idle" /\ ~panicked
    /\ IF scheduled # "None"
       THEN /\ transition' = scheduled /\ scheduled' = "None"
            /\ todo' = AppSystems
       ELSE /\ UNCHANGED <<transition, scheduled>>
            /\ todo' = AppSystems \cup UpdateSystems(state)
    /\ phase' = "update"
    /\ UNCHANGED <<state, paused, panicked, inputs>>
    /\ UNCHANGED <<genVars, boardVars, eventVars, histVars>>

\* State::set: Ok iff the state differs and no operation is queued
SetOk(s) == state # s /\ scheduled = "None"

\* state_handler without the return on a state other than InGame
PauseAfterAnyState(esc) == IF esc THEN ~paused ELSE paused

\* the pause flag after state_handler saw (or did not see) Escape
PauseAfter(esc) == IF esc /\ state = "InGame" THEN ~paused ELSE paused

state_handler ==
    /\ Running("state_handler") /\ Ran("state_handler")
    /\ \E esc \in BOOLEAN, g \in BOOLEAN :
        /\ inputs + Cost(esc) + Cost(g) <= MaxInputs
        /\ inputs' = inputs + Cost(esc) + Cost(g)
        /\ paused' = PauseAfter(esc)
        /\ IF g /\ ~(esc /\ state # "InGame")
           THEN LET target == IF state = "Out" THEN "InGame" ELSE "Out"
                IN  IF SetOk(target)
                    THEN /\ scheduled' = target
                         /\ restartEv' = IF state = "Out" THEN restartEv ELSE restartEv + 1
                         /\ restartRequested' = (restartRequested \/ state # "Out")
                         /\ UNCHANGED panicked
                    ELSE /\ panicked' = TRUE
                         /\ UNCHANGED <<scheduled, restartEv, restartRequested>>
           ELSE UNCHANGED <<scheduled, restartEv, restartRequested, panicked>>
    /\ UNCHANGED <<state, transition, trigOld, trigNew, markEv, bombExplosionEvents, boardCompletedEvents>>
    /\ UNCHANGED <<genVars, boardVars, acts, removals, actedOnSkipped, markRequested, lastCall>>

restart ==
    /\ Running("restart") /\ Ran("restart")
    /\ restartEv' = 0
    /\ UNCHANGED inputs
    /\ IF restartEv > 0 /\ state = "Out"
       THEN IF SetOk("InGame")
            THEN scheduled' = "InGame" /\ UNCHANGED panicked
            ELSE panicked' = TRUE /\ UNCHANGED scheduled
       ELSE UNCHANGED <<scheduled, panicked>>
    /\ UNCHANGED <<state, transition, paused, trigOld, trigNew, markEv, bombExplosionEvents, boardCompletedEvents>>
    /\ UNCHANGED <<genVars, boardVars, histVars>>

\* the TileTriggerEvents queued once input_handling has run while paused /
\* not paused; click is <<>> (no press inside the board), <<"Left", c>> or <<"Right", c>>
TriggersSent(isPaused, queue, click) ==
    IF isPaused THEN queue
    ELSE IF click # <<>> /\ click[1] = "Left"
         THEN Append(queue, [coord |-> click[2], skipped |-> FALSE])
         ELSE queue

\* the TileMarkEvents queued once input_handling has run: the Right arm of
\* the match logs the coordinates and sends nothing
MarksSent(isPaused, queue, click) == queue

\* input_handling has resolved a Right press to a tile that is still covered
MarkPressed(isPaused, covered, click) ==
    ~isPaused /\ click # <<>> /\ click[1] = "Right" /\ click[2] \in covered

Clicks == {<<>>} \cup ({"Left", "Right"} \X GridCoords)

input_handling ==
    /\ Running("input_handling") /\ Ran("input_handling")
    /\ \E click \in Clicks :
        /\ inputs + Cost(click # <<>>) <= MaxInputs
        /\ inputs' = inputs + Cost(click # <<>>)
        /\ trigNew' = TriggersSent(paused, trigNew, click)
        /\ markEv' = MarksSent(paused, markEv, click)
        /\ markRequested' = (markRequested \/ MarkPressed(paused, covered_tiles, click))
    /\ UNCHANGED <<trigOld, restartEv, bombExplosionEvents, boardCompletedEvents>>
    /\ UNCHANGED <<genVars, appVars, boardVars>>
    /\ UNCHANGED <<acts, removals, actedOnSkipped, restartRequested, lastCall>>

\* the coordinates trigger_event_handler tags with Uncover, reading evs
TriggerHitsUnchecked(isPaused, evs, covered, marked) ==
    IF isPaused THEN {}
    ELSE { evs[i].coord : i \in 1 .. Len(evs) }

TriggerHits(isPaused, evs, covered, marked) ==
    IF isPaused THEN {}
    ELSE { evs[i].coord : i \in { j \in 1 .. Len(evs) : TileToUncover(covered, marked, evs[j].coord) } }

MarkSkipped(evs) == [i \in 1 .. Len(evs) |-> [evs[i] EXCEPT !.skipped = TRUE]]

trigger_event_handler ==
    /\ Running("trigger_event_handler") /\ Ran("trigger_event_handler")
    /\ UNCHANGED inputs
    /\ LET evs == trigOld \o trigNew
           hits == TriggerHits(paused, evs, covered_tiles, marked_tiles)
       IN  /\ inserted' = inserted \cup hits
           /\ acts' = acts \cup hits
           /\ IF paused
              THEN /\ trigOld' = MarkSkipped(trigOld) /\ trigNew' = MarkSkipped(trigNew)
                   /\ UNCHANGED actedOnSkipped
              ELSE /\ trigOld' = <<>> /\ trigNew' = <<>>
                   /\ actedOnSkipped' =
                        (actedOnSkipped \/
                           \E i \in 1 .. Len(evs) : evs[i].skipped /\ evs[i].coord \in hits)
    /\ UNCHANGED <<markEv, restartEv, bombExplosionEvents, boardCompletedEvents>>
    /\ UNCHANGED <<hasBoard, safe_start, tile_map, covered_tiles, marked_tiles, uncover>>
    /\ UNCHANGED <<genVars, appVars, removals, restartRequested, markRequested, lastCall>>

\* uncover_tiles returning early while paused, as the two input systems do
uncover_tiles_unless_paused ==
    /\ Running("uncover_tiles") /\ Ran("uncover_tiles")
    /\ UNCHANGED inputs
    /\ LET b == UncoverAll(tile_map,
                           [covered |-> covered_tiles, marked |-> marked_tiles,
                            removals |-> removals, inserted |-> inserted],
                           IF paused THEN {} ELSE uncover)
       IN  /\ covered_tiles' = b.covered
           /\ marked_tiles' = b.marked
           /\ removals' = b.removals
           /\ inserted' = b.inserted
    /\ UNCHANGED <<hasBoard, safe_start, tile_map, uncover>>
    /\ UNCHANGED <<genVars, appVars, eventVars, acts, actedOnSkipped, restartRequested>>
    /\ UNCHANGED <<markRequested, lastCall>>

\* uncover_tiles recording the uncovered state in the tile map
uncover_tiles_clearing_tiles ==
    /\ Running("uncover_tiles") /\ Ran("uncover_tiles")
    /\ UNCHANGED inputs
    /\ LET b == UncoverAll(tile_map,
                           [covered |-> covered_tiles, marked |-> marked_tiles,
                            removals |-> removals, inserted |-> inserted],
                           uncover)
       IN  /\ covered_tiles' = b.covered
           /\ marked_tiles' = b.marked
           /\ removals' = b.removals
           /\ inserted' = b.inserted
    /\ tile_map' = [c \in GridCoords |-> IF c \in uncover THEN EmptyTile ELSE tile_map[c]]
    /\ UNCHANGED <<hasBoard, safe_start, uncover>>
    /\ UNCHANGED <<genVars, appVars, eventVars, acts, actedOnSkipped, restartRequested>>
    /\ UNCHANGED <<markRequested, lastCall>>

uncover_tiles ==
    /\ Running("uncover_tiles") /\ Ran("uncover_tiles")
    /\ UNCHANGED inputs
    /\ LET b == UncoverAll(tile_map,
                           [covered |-> covered_tiles, marked |-> marked_tiles,
                            removals |-> removals, inserted |-> inserted],
                           uncover)
       IN  /\ covered_tiles' = b.covered
           /\ marked_tiles' = b.marked
           /\ removals' = b.removals
           /\ inserted' = b.inserted
    /\ UNCHANGED <<hasBoard, safe_start, tile_map, uncover>>
    /\ UNCHANGED <<genVars, appVars, eventVars, acts, actedOnSkipped, restartRequested>>
    /\ UNCHANGED <<markRequested, lastCall>>

\* systems::mark::mark_tiles: every TileMarkEvent read toggles the mark of
\* its tile through Board::mark_request
mark_tiles ==
    /\ Running("mark_tiles") /\ Ran("mark_tiles")
    /\ UNCHANGED inputs
    /\ marked_tiles' = MarkAll(covered_tiles, marked_tiles, markEv)
    /\ markEv' = <<>>
    /\ UNCHANGED <<trigOld, trigNew, restartEv, bombExplosionEvents, boardCompletedEvents>>
    /\ UNCHANGED <<hasBoard, safe_start, tile_map, covered_tiles, uncover, inserted>>
    /\ UNCHANGED <<genVars, appVars, histVars>>

\* end of a pass: the Commands are applied (a despawned cover is gone, an
\* Uncover inserted on a live cover stays), then the state driver looks again.
\* When the frame ends here, the event buffers are swapped as the next
\* frame's Events::update_system does before any system can read them:
\* events sent this frame stay readable one more frame, older ones are dropped
EndPass ==
    /\ phase = "update" /\ ~panicked /\ todo = {}
    /\ uncover' = (uncover \cup inserted) \cap covered_tiles
    /\ inserted' = {}
    /\ IF transition # "None"
       THEN phase' = "exit" /\ UNCHANGED <<transition, scheduled>>
       ELSE IF scheduled # "None"
            THEN phase' = "exit" /\ transition' = scheduled /\ scheduled' = "None"
            ELSE phase' = "idle" /\ UNCHANGED <<transition, scheduled>>
    /\ IF phase' = "idle"
       THEN trigOld' = trigNew /\ trigNew' = <<>>
       ELSE UNCHANGED <<trigOld, trigNew>>
    /\ UNCHANGED <<state, paused, panicked, todo, inputs>>
    /\ UNCHANGED <<hasBoard, safe_start, tile_map, covered_tiles, marked_tiles>>
    /\ UNCHANGED <<genVars, markEv, restartEv, bombExplosionEvents, boardCompletedEvents, histVars>>

\* on_exit(InGame): the board entity and the Board resource are removed
cleanup_board ==
    /\ phase = "exit" /\ ~panicked /\ state = "InGame"
    /\ hasBoard' = FALSE
    /\ tile_map' = EmptyMap(Width, Height)
    /\ covered_tiles' = {} /\ marked_tiles' = {} /\ uncover' = {} /\ inserted' = {}
    /\ acts' = {} /\ removals' = [c \in GridCoords |-> 0]
    /\ state' = transition
    /\ phase' = "enter"
    /\ UNCHANGED <<scheduled, transition, paused, panicked, safe_start, todo, inputs>>
    /\ markRequested' = FALSE
    /\ UNCHANGED <<genVars, eventVars, actedOnSkipped, restartRequested, lastCall>>

\* leaving Out: no on_exit system
ExitOut ==
    /\ phase = "exit" /\ ~panicked /\ state = "Out"
    /\ state' = transition
    /\ phase' = "enter"
    /\ UNCHANGED <<scheduled, transition, paused, panicked, todo, inputs>>
    /\ UNCHANGED <<genVars, boardVars, eventVars, histVars>>

\* the covers create_board tags with Uncover once the tiles are spawned
SafeStartUncover(safe, tiles) == IF safe THEN SafeStartCells(tiles) ELSE {}

\* the covered_tiles map create_board hands to the Board
CoveredAtCreation(old) == GridCoords

\* on_enter(InGame)
create_board ==
    /\ phase = "enter" /\ ~panicked /\ state = "InGame"
    /\ \E bombs \in { S \in SUBSET GridCoords : Cardinality(S) = BombCount } :
        /\ tile_map' = SetBombs(bombs, Width, Height)
        /\ uncover' = SafeStartUncover(safe_start, tile_map')
        /\ acts' = SafeStartUncover(safe_start, tile_map')
    /\ hasBoard' = TRUE
    /\ covered_tiles' = CoveredAtCreation(covered_tiles)
    /\ marked_tiles' = {}
    /\ inserted' = {}
    /\ removals' = [c \in GridCoords |-> 0]
    /\ restartRequested' = FALSE
    /\ transition' = "None"
    /\ todo' = UpdateSystems(state)
    /\ phase' = "update"
    /\ UNCHANGED <<state, scheduled, paused, panicked, safe_start, inputs>>
    /\ markRequested' = FALSE
    /\ UNCHANGED <<genVars, eventVars, actedOnSkipped, lastCall>>

\* entering Out: no on_enter system, no update set
EnterOut ==
    /\ phase = "enter" /\ ~panicked /\ state = "Out"
    /\ transition' = "None"
    /\ todo' = UpdateSystems(state)
    /\ phase' = "update"
    /\ UNCHANGED <<state, scheduled, paused, panicked, inputs>>
    /\ UNCHANGED <<genVars, boardVars, eventVars, histVars>>

Next ==
    \/ BeginFrame
    \/ state_handler
    \/ restart
    \/ input_handling
    \/ trigger_event_handler
    \/ uncover_tiles
    \/ mark_tiles
    \/ EndPass
    \/ cleanup_board
    \/ ExitOut
    \/ create_board
    \/ EnterOut

Spec == Init /\ [][Next]_vars


SpecFair == Init /\ [][Next]_vars /\ WF_vars(Next)

----------------------------------------------------------------------------
(* SpecBoard: trigger_event_handler and the Board's mark request applied to
   arbitrary Board values of the session grid.  trigOld holds the event the
   handler has read last. *)

BoardInit ==
    /\ GenIdle
    /\ state = "InGame" /\ scheduled = "None" /\ transition = "None"
    /\ paused \in BOOLEAN /\ panicked = FALSE
    /\ hasBoard = TRUE /\ safe_start = FALSE
    /\ \E bombs \in { S \in SUBSET GridCoords : Cardinality(S) = BombCount } :
          tile_map = SetBombs(bombs, Width, Height)
    /\ covered_tiles \in SUBSET GridCoords
    /\ marked_tiles \in SUBSET covered_tiles
    /\ uncover = {} /\ inserted = {}
    /\ trigOld = <<>> /\ trigNew = <<>> /\ markEv = <<>> /\ restartEv = 0
    /\ bombExplosionEvents = 0 /\ boardCompletedEvents = 0
    /\ phase = "board" /\ todo = {} /\ inputs = 0
    /\ acts = {} /\ removals = [c \in GridCoords |-> 0]
    /\ actedOnSkipped = FALSE /\ restartRequested = FALSE
    /\ markRequested = FALSE /\ lastCall = NoCall

\* trigger_event_handler reading one TileTriggerEvent
BoardTrigger ==
    /\ phase = "board"
    /\ \E c \in GridCoords :
        LET ev == [coord |-> c, skipped |-> FALSE]
            hits == TriggerHits(paused, <<ev>>, covered_tiles, marked_tiles)
        IN  /\ trigOld' = <<ev>>
            /\ inserted' = inserted \cup hits
            /\ acts' = acts \cup hits
    /\ UNCHANGED <<trigNew, markEv, restartEv, bombExplosionEvents, boardCompletedEvents>>
    /\ UNCHANGED <<hasBoard, safe_start, tile_map, covered_tiles, marked_tiles, uncover>>
    /\ UNCHANGED <<genVars, appVars, schedVars, removals, actedOnSkipped, restartRequested>>
    /\ UNCHANGED <<markRequested, lastCall>>

BoardMark ==
    /\ phase = "board"
    /\ \E c \in GridCoords : marked_tiles' = MarkRequest(covered_tiles, marked_tiles, c)
    /\ UNCHANGED <<hasBoard, safe_start, tile_map, covered_tiles, uncover, inserted>>
    /\ UNCHANGED <<genVars, appVars, eventVars, schedVars, histVars>>

BoardNext == BoardTrigger \/ BoardMark

SpecBoard == BoardInit /\ [][BoardNext]_vars

----------------------------------------------------------------------------
(* SpecOps: Board::try_uncover_tile and Board::adjacent_covered_tiles called
   directly, in any order and on any coordinate, the cells just outside the
   grid included, on arbitrary Board values of the session grid.  Neither
   method reads the tile map or the pause flag: one generated map stands for
   all *)

OpCoords == Coords(Width + 1, Height + 1)

OpsInit ==
    /\ GenIdle
    /\ state = "InGame" /\ scheduled = "None" /\ transition = "None"
    /\ paused = FALSE /\ panicked = FALSE
    /\ hasBoard = TRUE /\ safe_start = FALSE
    /\ LET bombs == CHOOSE S \in SUBSET GridCoords : Cardinality(S) = BombCount
       IN  tile_map = SetBombs(bombs, Width, Height)
    /\ covered_tiles \in SUBSET GridCoords
    /\ marked_tiles \in SUBSET covered_tiles
    /\ uncover = {} /\ inserted = {}
    /\ trigOld = <<>> /\ trigNew = <<>> /\ markEv = <<>> /\ restartEv = 0
    /\ bombExplosionEvents = 0 /\ boardCompletedEvents = 0
    /\ phase = "ops" /\ todo = {} /\ inputs = 0
    /\ acts = {} /\ removals = [c \in GridCoords |-> 0]
    /\ actedOnSkipped = FALSE /\ restartRequested = FALSE
    /\ markRequested = FALSE /\ lastCall = NoCall

OpTryUncover ==
    /\ phase = "ops"
    /\ \E c \in OpCoords :
        LET r == TryUncoverTile(covered_tiles, marked_tiles, c)
        IN  /\ covered_tiles' = r.covered
            /\ marked_tiles' = r.marked
            /\ removals' = IF r.some THEN [removals EXCEPT ![c] = @ + 1] ELSE removals
            /\ lastCall' = [op |-> "try_uncover_tile", coord |-> c,
                            some |-> r.some, cells |-> {}]
    /\ UNCHANGED <<hasBoard, safe_start, tile_map, uncover, inserted>>
    /\ UNCHANGED <<genVars, appVars, eventVars, schedVars>>
    /\ UNCHANGED <<acts, actedOnSkipped, restartRequested, markRequested>>

OpAdjacent ==
    /\ phase = "ops"
    /\ \E c \in OpCoords :
        lastCall' = [op |-> "adjacent_covered_tiles", coord |-> c, some |-> FALSE,
                     cells |-> AdjacentCoveredTiles(covered_tiles, c)]
    /\ UNCHANGED <<genVars, appVars, boardVars, eventVars, schedVars>>
    /\ UNCHANGED <<acts, removals, actedOnSkipped, restartRequested, markRequested>>

OpsNext == OpTryUncover \/ OpAdjacent

SpecOps == OpsInit /\ [][OpsNext]_vars

----------------------------------------------------------------------------
(* SpecPlay: a board as create_board leaves it, driven by the intents the
   mark path would deliver if input_handling sent its TileMarkEvent: an
   activation (trigger_event_handler reading one event), a mark (mark_tiles
   reading one event), a pause toggle, and a frame's uncover pass with its
   Commands applied.  At most MaxInputs intents are delivered. *)

PlayInit ==
    /\ GenIdle
    /\ state = "InGame" /\ scheduled = "None" /\ transition = "None"
    /\ paused = FALSE /\ panicked = FALSE
    /\ hasBoard = TRUE /\ safe_start \in BOOLEAN
    /\ \E bombs \in { S \in SUBSET GridCoords : Cardinality(S) = BombCount } :
          tile_map = SetBombs(bombs, Width, Height)
    /\ covered_tiles = CoveredAtCreation({})
    /\ marked_tiles = {}
    /\ uncover = SafeStartUncover(safe_start, tile_map) /\ inserted = {}
    /\ trigOld = <<>> /\ trigNew = <<>> /\ markEv = <<>> /\ restartEv = 0
    /\ bombExplosionEvents = 0 /\ boardCompletedEvents = 0
    /\ phase = "play" /\ todo = {} /\ inputs = 0
    /\ acts = uncover /\ removals = [c \in GridCoords |-> 0]
    /\ actedOnSkipped = FALSE /\ restartRequested = FALSE
    /\ markRequested = FALSE /\ lastCall = NoCall

PlayActivate ==
    /\ phase = "play" /\ inputs < MaxInputs
    /\ inputs' = inputs + 1
    /\ \E c \in GridCoords :
        LET hits == TriggerHits(paused, <<[coord |-> c, skipped |-> FALSE]>>,
                                covered_tiles, marked_tiles)
        IN  uncover' = uncover \cup hits /\ acts' = acts \cup hits
    /\ UNCHANGED <<hasBoard, safe_start, tile_map, covered_tiles, marked_tiles, inserted>>
    /\ UNCHANGED <<genVars, appVars, eventVars, phase, todo>>
    /\ UNCHANGED <<removals, actedOnSkipped, restartRequested, markRequested, lastCall>>

PlayMark ==
    /\ phase = "play" /\ inputs < MaxInputs
    /\ inputs' = inputs + 1
    /\ \E c \in GridCoords :
        IF paused
        THEN UNCHANGED <<marked_tiles, lastCall>>
        ELSE /\ marked_tiles' = MarkAll(covered_tiles, marked_tiles, <<c>>)
             /\ lastCall' = [op |-> "mark_request", coord |-> c,
                             some |-> c \in marked_tiles', cells |-> {}]
    /\ UNCHANGED <<hasBoard, safe_start, tile_map, covered_tiles, uncover, inserted>>
    /\ UNCHANGED <<genVars, appVars, eventVars, phase, todo>>
    /\ UNCHANGED <<acts, removals, actedOnSkipped, restartRequested, markRequested>>

PlayPause ==
    /\ phase = "play" /\ inputs < MaxInputs
    /\ inputs' = inputs + 1
    /\ paused' = PauseAfter(TRUE)
    /\ UNCHANGED <<state, scheduled, transition, panicked>>
    /\ UNCHANGED <<genVars, boardVars, eventVars, phase, todo, histVars>>

PlayPass ==
    /\ phase = "play" /\ uncover # {}
    /\ LET b == UncoverAll(tile_map,
                           [covered |-> covered_tiles, marked |-> marked_tiles,
                            removals |-> removals, inserted |-> {}],
                           uncover)
       IN  /\ covered_tiles' = b.covered
           /\ marked_tiles' = b.marked
           /\ removals' = b.removals
           /\ uncover' = (uncover \cup b.inserted) \cap b.covered
    /\ UNCHANGED <<hasBoard, safe_start, tile_map, inserted>>
    /\ UNCHANGED <<genVars, appVars, eventVars, schedVars>>
    /\ UNCHANGED <<acts, actedOnSkipped, restartRequested, markRequested, lastCall>>

PlayNext == PlayActivate \/ PlayMark \/ PlayPause \/ PlayPass

SpecPlay == PlayInit /\ [][PlayNext]_vars

----------------------------------------------------------------------------
(* Claims about the flood fill *)

Adjacent(c, d) == c # d /\ Abs(c[1] - d[1]) <= 1 /\ Abs(c[2] - d[2]) <= 1

\* the 8-connected region of Empty cells that contains the cells of S
RECURSIVE EmptyRegion(_, _)
EmptyRegion(tiles, S) ==
    LET more == { d \in GridCoords : tiles[d] = EmptyTile /\ \E r \in S : Adjacent(r, d) }
    IN  IF more \subseteq S THEN S ELSE EmptyRegion(tiles, S \cup more)

RegionBorder(tiles, R) ==
    { d \in GridCoords : tiles[d].kind = "BombNeighbor" /\ \E r \in R : Adjacent(r, d) }

\* what a fill started by activating a uncovers
FillSet(tiles, a) ==
    IF tiles[a] = EmptyTile
    THEN EmptyRegion(tiles, {a}) \cup RegionBorder(tiles, EmptyRegion(tiles, {a}))
    ELSE {a}

NoPending == uncover = {} /\ inserted = {}

Drained == hasBoard /\ phase \in {"idle", "update"} /\ NoPending

UncoverStep == "uncover_tiles" \in todo /\ "uncover_tiles" \notin todo'

TriggerStep == "trigger_event_handler" \in todo /\ "trigger_event_handler" \notin todo'

\* C1: once the fills started on a board have drained, the cells gone from
\* covered_tiles are exactly, for every activated Empty cell, its 8-connected
\* region of Empty cells with the BombNeighbor cells adjacent to the region
\* (and the activated cell itself for an activated numbered or Bomb cell); a
\* fill uncovers no Bomb: every Bomb that was not itself activated is covered.
C1_FloodFillRegion ==
    Drained =>
        /\ GridCoords \ covered_tiles = UNION { FillSet(tile_map, a) : a \in acts }
        /\ \A c \in GridCoords :
              tile_map[c].kind = "Bomb" /\ c \notin acts => c \in covered_tiles

\* one click on an Empty cell of a fresh board (no safe start): its region
\* of two or more cells and the numbered border are uncovered, the Bomb is not
C1_Witness ==
    /\ Drained /\ ~safe_start
    /\ \E c \in GridCoords :
        /\ acts = {c}
        /\ tile_map[c] = EmptyTile
        /\ Cardinality(EmptyRegion(tile_map, {c})) >= 2
        /\ RegionBorder(tile_map, EmptyRegion(tile_map, {c})) # {}
        /\ covered_tiles = GridCoords \ FillSet(tile_map, c)
        /\ \E b \in covered_tiles : tile_map[b].kind = "Bomb"
        /\ \E n \in covered_tiles : tile_map[n].kind = "BombNeighbor"

\* C2: a flood fill terminates: every uncover pass that finds cells pending
\* uncovers them all, so covered_tiles strictly shrinks, and with the frames
\* running on a state with no cell pending is always reached again; no cell
\* is removed from covered_tiles more than once.
C2_FillTerminates ==
    /\ []<>NoPending
    /\ [](\A c \in GridCoords : removals[c] <= 1)
    /\ [][UncoverStep /\ uncover # {} =>
            /\ uncover \subseteq covered_tiles
            /\ covered_tiles' = covered_tiles \ uncover
            /\ Cardinality(covered_tiles') < Cardinality(covered_tiles)]_vars

\* a fill that took three uncover passes has drained
C2_Witness ==
    /\ Drained
    /\ \E c \in acts :
        /\ acts = {c}
        /\ tile_map[c] = EmptyTile
        /\ Cardinality(GridCoords \ covered_tiles) >= 4
        /\ \A d \in GridCoords \ covered_tiles : removals[d] = 1

\* C3: after a fill drains, a BoardCompletedEvent has been sent if and only
\* if every coordinate left in covered_tiles holds a Bomb.
C3_BoardCompleted ==
    Drained /\ acts # {} =>
        (boardCompletedEvents > 0 <=> \A c \in covered_tiles : tile_map[c].kind = "Bomb")

\* C4: the uncover pass over one activated Bomb cell removes exactly that
\* cell from covered_tiles, sends a BombExplosionEvent and tags no other cover.
C4_BombExplodes ==
    [][(UncoverStep /\ \E c \in covered_tiles : uncover = {c} /\ tile_map[c].kind = "Bomb") =>
            /\ covered_tiles' = covered_tiles \ uncover
            /\ inserted' = inserted
            /\ bombExplosionEvents' = bombExplosionEvents + 1]_vars

\* C5: a TileTriggerEvent on a marked cell, or on a cell no longer covered,
\* tags no cover with Uncover and leaves covered_tiles and marked_tiles as
\* they are; a cover is tagged only when its cell is covered and not marked.
C5_MarkedOrUncoveredMiss ==
    [][trigOld' # trigOld =>
        LET c == trigOld'[1].coord
        IN  /\ (c \in marked_tiles \/ c \notin covered_tiles) => inserted' = inserted
            /\ covered_tiles' = covered_tiles /\ marked_tiles' = marked_tiles
            /\ inserted' \ inserted \subseteq { d \in covered_tiles : d \notin marked_tiles }
            /\ (~paused /\ c \in covered_tiles /\ c \notin marked_tiles) => c \in inserted']_vars

\* the handler has read an event on a marked cell and has not tagged it,
\* and has tagged another cell after that cell was unmarked
C5_Witness ==
    /\ phase = "board" /\ ~paused
    /\ trigOld # <<>>
    /\ trigOld[1].coord \in marked_tiles
    /\ trigOld[1].coord \notin inserted
    /\ \E d \in inserted : d \in covered_tiles

\* C6: a trigger event that trigger_event_handler left unread because the
\* session was paused is not acted upon after the session is resumed.
C6_PausedIntentsSwallowed == ~actedOnSkipped

\* the session is Over on this board since an earlier frame: a Bomb was
\* uncovered by an earlier pass, or every cell left covered is a Bomb and no
\* cell has been pending since the last pass
Exploded == \E c \in GridCoords \ (covered_tiles \cup uncover) : tile_map[c].kind = "Bomb"

Completed ==
    /\ uncover = {} /\ covered_tiles # GridCoords
    /\ \A c \in covered_tiles : tile_map[c].kind = "Bomb"

\* C7: intents reach the Board only while the session is running, and once a
\* bomb has exploded or the board is completed no later activation tags a
\* cover for uncovering until the board is rebuilt.
C7_NoIntentsWhenOver ==
    [][TriggerStep /\ inserted' # inserted =>
            /\ state = "InGame" /\ ~paused
            /\ ~Exploded /\ ~Completed]_vars

\* C8: a restart requested in a running game is never lost: whenever a frame
\* has ended and the new board is not built yet, the RestartEvent is unread
\* or the transition back to InGame is queued.
C8_RestartReturns ==
    restartRequested /\ phase = "idle" => restartEv > 0 \/ scheduled = "InGame"


----------------------------------------------------------------------------
(* Claims about map generation *)

\* bomb-tagged cells of the grid at distance at most 1 on both axes, c excluded
AdjacentBombs(tiles, c, w, h) ==
    { d \in Coords(w, h) :
        /\ d # c
        /\ Abs(d[1] - c[1]) <= 1
        /\ Abs(d[2] - c[2]) <= 1
        /\ tiles[d].kind = "Bomb" }

\* C9: after map generation every non-bomb cell stores the number n of Bomb
\* cells in its in-bounds 8-neighbourhood: BombNeighbor(n), 1 <= n <= 8, when
\* n > 0 and Empty when n = 0; BombNeighbor(0) is never produced.
C9_NeighborCounts ==
    gpc = "done" =>
        \A c \in Coords(gw, gh) :
            LET n == Cardinality(AdjacentBombs(gtiles, c, gw, gh))
            IN  /\ gtiles[c].kind # "Bomb" /\ n > 0 =>
                    gtiles[c] = BombNeighborTile(n) /\ n <= 8
                /\ gtiles[c].kind # "Bomb" /\ n = 0 => gtiles[c] = EmptyTile
                /\ gtiles[c].kind = "BombNeighbor" => gtiles[c].count \in 1 .. 8

\* a generated 3x3 map whose centre counts 8 bombs, and one with both an
\* Empty cell and a numbered cell
C9_Witness ==
    /\ gpc = "done"
    /\ \/ \E c \in Coords(gw, gh) : gtiles[c] = BombNeighborTile(8)
       \/ /\ \E c \in Coords(gw, gh) : gtiles[c] = EmptyTile
          /\ \E c \in Coords(gw, gh) : gtiles[c] = BombNeighborTile(2)
          /\ gcount = 3

\* C10: for every bomb count <= width*height set_bombs terminates, and it
\* leaves exactly count cells tagged Bomb (so the draws were pairwise
\* distinct), whatever the random draws were.
C10_ExactBombCount ==
    <>[](gpc = "done" /\ Cardinality(BombsOf(gtiles, gw, gh)) = gcount)

C10_Witness ==
    /\ gpc = "done"
    /\ gcount >= 4
    /\ Cardinality(BombsOf(gtiles, gw, gh)) = gcount
    /\ gcount < gw * gh

----------------------------------------------------------------------------
(* Claims about session start *)

Malformed == gw = 0 \/ gh = 0 \/ gcount > gw * gh

\* C11: a malformed configuration (zero width or height, or more bombs than
\* cells) is rejected before any grid is built: no tile grid and no Board
\* ever exist for it.
C11_RejectsMalformed == Malformed => gtiles = <<>> /\ ~hasBoard

\* position of a cell when the grid is read row by row (y outer, x inner)
RowMajorIndex(c) == c[2] * Width + c[1]

CreateStep == phase = "enter" /\ state = "InGame"

\* C12: the cover create_board tags for uncovering is, with safe_start set,
\* that of the first Empty cell in row-major order, hence never a Bomb; with
\* safe_start unset, or on a map without an Empty cell, no cover is tagged.
C12_SafeStartFirstEmpty ==
    [][CreateStep =>
        LET empties == { c \in GridCoords : tile_map'[c].kind = "Empty" }
        IN  /\ safe_start /\ empties # {} =>
                \E c \in empties :
                    /\ uncover' = {c}
                    /\ \A d \in empties : RowMajorIndex(c) <= RowMajorIndex(d)
            /\ ~safe_start \/ empties = {} => uncover' = {}
            /\ \A c \in uncover' : tile_map'[c].kind # "Bomb"]_vars

\* before any input the safe start has uncovered the first Empty cell, which
\* is not the first cell of the grid
C12_Witness ==
    /\ hasBoard /\ safe_start /\ inputs = 0
    /\ \E c \in GridCoords :
        /\ acts = {c} /\ c \notin covered_tiles
        /\ tile_map[c] = EmptyTile
        /\ RowMajorIndex(c) > 0
        /\ \A d \in GridCoords :
              tile_map[d] = EmptyTile => RowMajorIndex(c) <= RowMajorIndex(d)
        /\ \E d \in GridCoords : d # c /\ tile_map[d] = EmptyTile

----------------------------------------------------------------------------
(* Claims about marks *)

\* C13: a mark intent on a covered cell of a running, unpaused session
\* toggles the mark of that cell: once the frame of the only input so far, a
\* right press on a covered tile of a board with no cell activated, has
\* ended, exactly that one cell is marked.
C13_MarkToggles ==
    phase = "idle" /\ hasBoard /\ markRequested /\ inputs = 1 /\ acts = {} =>
        Cardinality(marked_tiles) = 1

----------------------------------------------------------------------------
(* Claims about fills, intents and the pause flag *)

\* C16: a flood fill is atomic with respect to the other intents: from the
\* activation that starts it until no cell is pending, no pause intent is
\* processed and no other activation tags a cover.
C16_FillAtomic ==
    [][hasBoard /\ ~NoPending =>
            /\ paused' = paused
            /\ TriggerStep => inserted' = inserted]_vars

\* C16, amended: the uncover pass is the atomic unit.  A pass uncovers every
\* cell pending at its start in one step, during which no activation is
\* read; between the passes of a fill, while intents are processed, no
\* step changes covered_tiles and no pending cover loses its tag.
C16_PassAtomic ==
    [][hasBoard /\ hasBoard' =>
            IF UncoverStep
            THEN /\ covered_tiles' = covered_tiles \ uncover
                 /\ uncover' = uncover
                 /\ trigOld' = trigOld /\ trigNew' = trigNew
            ELSE /\ covered_tiles' = covered_tiles
                 /\ (uncover \cap covered_tiles) \subseteq uncover']_vars

\* a frame has ended with the session paused while a fill that has already
\* uncovered cells still has cells pending: the pause intent was processed
\* between two passes of the fill
C16_Witness ==
    /\ hasBoard /\ phase = "idle" /\ inputs <= 2
    /\ paused
    /\ uncover # {}
    /\ covered_tiles # GridCoords

\* C17: a fill goes on while the session is paused: an uncover pass that
\* runs while paused uncovers every pending cell and tags the covered
\* neighbours of every Empty cell it uncovers, and with the frames running
\* the fill reaches the state with no cell pending.
C17_PauseDoesNotInterrupt ==
    /\ [][UncoverStep /\ paused =>
            /\ covered_tiles' = covered_tiles \ uncover
            /\ \A c \in uncover : tile_map[c] = EmptyTile =>
                  \A d \in covered_tiles' : Adjacent(c, d) => d \in inserted']_vars
    /\ (paused /\ ~NoPending) ~> NoPending

\* paused since an earlier frame (state_handler has not run yet in this
\* one), the uncover pass of this frame has uncovered the cells that were
\* pending, among them cells reached by propagation
C17_Witness ==
    /\ phase = "update" /\ paused /\ inputs <= 2
    /\ "state_handler" \in todo /\ "uncover_tiles" \notin todo
    /\ uncover # {} /\ uncover \cap covered_tiles = {}
    /\ uncover \cap acts = {}
    /\ Cardinality(GridCoords \ covered_tiles) >= 4

\* C20: the tile map of a Board never changes: the step that builds the
\* Board stores the map set_bombs derived from its BombCount bombs, and every
\* later step that keeps the Board (activation, fill pass, pause, safe start)
\* leaves every cell's Tile as it is.
C20_TileMapImmutable ==
    [][/\ hasBoard /\ hasBoard' => tile_map' = tile_map
       /\ ~hasBoard /\ hasBoard' =>
            /\ Cardinality(BombsOf(tile_map', Width, Height)) = BombCount
            /\ tile_map' = SetBombs(BombsOf(tile_map', Width, Height), Width, Height)]_vars

\* an activation, its fill and a pause later, the board is drained
C20_Witness ==
    /\ Drained /\ paused /\ ~safe_start
    /\ acts # {}
    /\ Cardinality(GridCoords \ covered_tiles) >= 4
    /\ \E c \in covered_tiles : tile_map[c].kind = "Bomb"

\* C15: covered_tiles holds only coordinates of the grid and every marked
\* coordinate is covered, after any sequence of activations, marks, pause
\* toggles and uncover passes on a board with or without safe start: a cell
\* an uncover pass uncovers is no longer marked afterwards.
C15_MarkedCoveredInGrid ==
    /\ \A c \in covered_tiles :
          c[1] >= 0 /\ c[1] < Width /\ c[2] >= 0 /\ c[2] < Height
    /\ marked_tiles \subseteq covered_tiles

\* the last mark request marked a cell that was never activated, and the
\* propagation of a fill has since uncovered it: it is no longer marked
C15_Witness ==
    /\ phase = "play"
    /\ lastCall.op = "mark_request" /\ lastCall.some
    /\ lastCall.coord \notin acts
    /\ lastCall.coord \notin covered_tiles
    /\ lastCall.coord \notin marked_tiles
    /\ removals[lastCall.coord] = 1

----------------------------------------------------------------------------
(* Claims about the Board methods *)

TryCalled == lastCall' # lastCall /\ lastCall'.op = "try_uncover_tile"

\* C14: try_uncover_tile on a covered coordinate returns the cover and
\* removes the coordinate from covered_tiles; on a coordinate that is not
\* covered it returns none and changes neither covered_tiles nor
\* marked_tiles; a coordinate a call has removed is handed out by no later
\* call, so no coordinate is removed twice.
C14_TryUncoverIdempotent ==
    [][/\ TryCalled =>
            LET c == lastCall'.coord
            IN  /\ lastCall'.some <=> c \in covered_tiles
                /\ c \in covered_tiles => covered_tiles' = covered_tiles \ {c}
                /\ c \notin covered_tiles =>
                      covered_tiles' = covered_tiles /\ marked_tiles' = marked_tiles
                /\ c \notin covered_tiles'
       /\ \A c \in GridCoords :
            /\ removals'[c] <= 1
            /\ removals'[c] = 1 => c \notin covered_tiles']_vars

\* a second call on a coordinate the first call removed has returned none
C14_Witness ==
    /\ lastCall.op = "try_uncover_tile" /\ ~lastCall.some
    /\ lastCall.coord \in GridCoords
    /\ removals[lastCall.coord] = 1

\* C18: no step adds a coordinate to covered_tiles: a coordinate that has
\* left the set does not come back, whatever is called on it afterwards.
C18_UncoverOneWay == [][covered_tiles' \subseteq covered_tiles]_vars

\* two coordinates were removed, one of them was asked for again, and both
\* are still out of covered_tiles
C18_Witness ==
    /\ lastCall.op = "try_uncover_tile" /\ ~lastCall.some
    /\ \E c, d \in GridCoords :
        /\ c # d /\ lastCall.coord = c
        /\ removals[c] = 1 /\ removals[d] = 1
        /\ c \notin covered_tiles /\ d \notin covered_tiles

\* C19: every coordinate adjacent_covered_tiles(c) returns is in
\* covered_tiles, lies inside [0,width) x [0,height), is at distance at most
\* 1 from c on each axis and is not c.
C19_AdjacentCovered ==
    lastCall.op = "adjacent_covered_tiles" =>
        \A d \in lastCall.cells :
            /\ d \in covered_tiles
            /\ d[1] >= 0 /\ d[1] < Width /\ d[2] >= 0 /\ d[2] < Height
            /\ Abs(d[1] - lastCall.coord[1]) <= 1
            /\ Abs(d[2] - lastCall.coord[2]) <= 1
            /\ d # lastCall.coord

\* the call on a covered corner cell with an uncovered neighbour returned
\* some of its neighbours, and the call on a cell outside the grid returned
\* cells of the grid's edge
C19_Witness ==
    /\ lastCall.op = "adjacent_covered_tiles"
    /\ lastCall.cells # {}
    /\ \/ /\ lastCall.coord = <<0, 0>>
          /\ <<0, 0>> \in covered_tiles
          /\ \E d \in GridCoords \ covered_tiles : Adjacent(<<0, 0>>, d)
       \/ lastCall.coord \notin GridCoords

----------------------------------------------------------------------------
(* Claims about the pause flag *)

StateHandlerStep == "state_handler" \in todo /\ "state_handler" \notin todo'

RestartStep == "restart" \in todo /\ "restart" \notin todo'

InputStep == "input_handling" \in todo /\ "input_handling" \notin todo'

\* C21: the pause flag changes only in a state_handler run that saw a key
\* pressed while the app state is InGame, and then it flips; a state_handler
\* run in another state, the restart system, and every step of a state
\* transition (leaving or entering a state, removing or building the board)
\* leave it as it is; and while the flag is set, on a first or a rebuilt
\* board alike, input_handling sends no TileTriggerEvent and
\* trigger_event_handler tags no cover.
C21_PauseFlagFrame ==
    [][/\ paused' # paused =>
            /\ StateHandlerStep /\ state = "InGame" /\ inputs' > inputs
            /\ paused' = ~paused
       /\ StateHandlerStep /\ state # "InGame" => paused' = paused
       /\ RestartStep => paused' = paused
       /\ (state' # state \/ hasBoard' # hasBoard \/ phase \in {"exit", "enter"}) =>
            paused' = paused
       /\ paused /\ InputStep => trigNew' = trigNew
       /\ paused /\ TriggerStep => inserted' = inserted]_vars

\* a board built while the flag was set: none of its covers is gone yet and
\* the cover its safe start tagged is still pending, so no state_handler has
\* run since it was built and the flag was set on the board before; the two
\* input systems have run on it and tagged nothing
C21_Witness ==
    /\ hasBoard /\ paused /\ safe_start
    /\ phase = "update" /\ state = "InGame"
    /\ covered_tiles = GridCoords
    /\ uncover # {} /\ uncover = SafeStartCells(tile_map) /\ acts = uncover
    /\ "uncover_tiles" \in todo
    /\ "input_handling" \notin todo /\ "trigger_event_handler" \notin todo
    /\ trigNew = <<>> /\ inserted = {}

=============================================================================
